---------------------------- MODULE Spec2Model ----------------------------
(***************************************************************************)
(* The chain-spec generator: main() loads a genesis skeleton and a chain   *)
(* configuration, runs the chainSpecModifiers over the document in their   *)
(* declaration order and writes the result; any exception thrown by a      *)
(* modifier is caught by main's catch block and the write is skipped.      *)
(* The model follows the generator that derives keys from seed phrases     *)
(* (seven modifiers, loadKeyFromMemo); the earlier index.js has the same   *)
(* main with five modifiers and reads ready-made addresses.                *)
(*                                                                         *)
(* JavaScript values are modelled as follows.  An object is a TLA+ record  *)
(* (a function on strings); a property that is undefined is a name outside *)
(* the record's DOMAIN.  An object iterated in insertion order (accounts,  *)
(* nodes, tokens) is a sequence of <<key, value>> pairs with distinct      *)
(* keys.  A key pair's public key is <<scheme, mnemonic>>, its SS58        *)
(* address <<"ss58", publicKey>> and its hex form <<"hex", publicKey>>.    *)
(* A thrown value is a sequence of strings: the thrown string's template   *)
(* followed by its interpolated names, or <<"TypeError">> / <<"Error">>    *)
(* for an Error object; <<>> means nothing was thrown.                     *)
(***************************************************************************)
EXTENDS Integers, Sequences, FiniteSets, TLC

VARIABLES
    input,        \* the genesis document as read from argv.i
    chainConfig,  \* the yaml configuration as read from argv.c
    config,       \* main's document, as the modifiers leave it in memory
    pc,           \* where main is: "forEach", "failed" (caught), "done"
    err,          \* the value main's catch block received, if any
    out,          \* what was written to argv.o: <<>> or <<document>>
    started,      \* the modifiers announced so far, in order
    ret           \* <<name, result>> of a direct call of getAccountOrFail

vars == <<input, chainConfig, config, pc, err, out, started, ret>>

\* ------------------------------------------------------------------ bounds
MaxAccounts == 2
MaxNodes == 1
MaxStaking == 2
MaxTokens == 2

\* ----------------------------------------------------------------- helpers
Has(obj, prop) == prop \in DOMAIN obj

Range(s) == {s[i] : i \in 1..Len(s)}

RECURSIVE Flatten_Prepend(_)
Flatten_Prepend(ss) ==
    IF ss = <<>> THEN <<>> ELSE Flatten_Prepend(Tail(ss)) \o Head(ss)

RECURSIVE Flatten(_)
Flatten(ss) == IF ss = <<>> THEN <<>> ELSE Head(ss) \o Flatten(Tail(ss))

\* _.isEmpty of an object: it has no own property
IsEmpty(obj) == DOMAIN obj = {}

\* _.get(chainConfig, ['accounts', accountName]): the positions of the entry
IndexOf(pairs, key) == {i \in 1..Len(pairs) : pairs[i][1] = key}

NoError == <<>>
TypeError == <<"TypeError">>
InvalidSeed == <<"Error", "invalid mnemonic">>

\* _.isString(ex) in main's catch: the thrown strings are the templates below
InvalidAccountMsg == "invalid account"
InvalidSudoMsg == "invalid sudo account"
InvalidSessionMsg == "invalid grandpa/babe config for node"

Throw(e) == [ok |-> FALSE, err |-> e]
Return(v) == [ok |-> TRUE, value |-> v]

\* A callback mapped over a collection: the first throw (in iteration order)
\* propagates, otherwise the mapped values are returned
Collect(rs) ==
    LET bad == {i \in 1..Len(rs) : ~rs[i].ok}
    IN  IF bad # {} THEN rs[CHOOSE i \in bad : \A j \in bad : i <= j]
        ELSE Return([i \in 1..Len(rs) |-> rs[i].value])

\* obj.prop = value on an object that may not have prop yet
SetProp(obj, prop, value) ==
    [p \in DOMAIN obj \cup {prop} |-> IF p = prop THEN value ELSE obj[p]]

\* what a section builder hands back to main: the document as it now is in
\* memory and, when it threw, the thrown value
Done(doc) == [ok |-> TRUE, config |-> doc, err |-> NoError]
Fail(doc, e) == [ok |-> FALSE, config |-> doc, err |-> e]

\* -------------------------------------------------------------- key deriver
\* keyring.addFromMnemonic(memo) of a Keyring of the given type, for a
\* mnemonic that is present: the pair is a function of scheme and mnemonic
addFromMnemonic(type, memo) == [publicKey |-> <<type, memo>>,
                                address |-> <<"ss58", <<type, memo>>>>]

u8aToHex(u8a) == <<"hex", u8a>>

loadKeyFromMemo(memo) ==
    LET keyEd25519 == addFromMnemonic("ed25519", memo)
        keySr25519 == addFromMnemonic("sr25519", memo)
    IN  [address |-> keySr25519.address,
         pubKeyEd25519 |-> u8aToHex(keyEd25519.publicKey),
         pubKeySr25519 |-> u8aToHex(keyEd25519.publicKey)]

\* loadKeyFromMemo(obj.seed) where obj.seed may be undefined: the keyring
\* cannot parse an undefined mnemonic and throws an Error object (never a
\* string, never an empty key)
loadKeyOf(obj) ==
    IF Has(obj, "seed") THEN Return(loadKeyFromMemo(obj.seed))
    ELSE Throw(InvalidSeed)

\* ------------------------------------------------------------- the resolver
getAccountOrFail_Partial(cc, accountName) ==
    LET at == IndexOf(cc.accounts, accountName)
    IN  IF at = {} THEN Throw(<<InvalidAccountMsg, accountName>>)
        ELSE LET account == cc.accounts[CHOOSE i \in at : TRUE][2]
                 accountData == loadKeyOf(account)
             IN  IF IsEmpty(account)
                 THEN Throw(<<InvalidAccountMsg, accountName>>)
                 ELSE IF ~accountData.ok THEN Return(account)
                 ELSE Return(SetProp(account, "accountData", accountData.value))

getAccountOrFail(cc, accountName) ==
    LET at == IndexOf(cc.accounts, accountName)
    IN  IF at = {} THEN Throw(<<InvalidAccountMsg, accountName>>)
        ELSE LET account == cc.accounts[CHOOSE i \in at : TRUE][2]
                 accountData == loadKeyOf(account)
             IN  IF IsEmpty(account)
                 THEN Throw(<<InvalidAccountMsg, accountName>>)
                 ELSE IF ~accountData.ok THEN accountData
                 ELSE Return(SetProp(account, "accountData", accountData.value))

\* --------------------------------------------------------- section builders
Runtime(doc) == doc.genesis.runtime

HasPallet(doc, pallet) == Has(Runtime(doc), pallet)

\* config.genesis.runtime.<pallet>.<field> = value (the pallet object exists)
SetField(doc, pallet, field, value) ==
    [doc EXCEPT !.genesis.runtime[pallet] = SetProp(@, field, value)]

\* the literal 100000000000000 (100 * 10^12), kept as its decimal digits: it
\* is only ever copied into the document
FixedStake == "100000000000000"

updateBootNodes(doc, cc) ==
    LET bootNodes == [i \in 1..Len(cc.nodes) |->
                         <<"/dns/", cc.nodes[i][2].host, "/tcp/30334/p2p/",
                           cc.nodes[i][2].id>>]
    IN  Done(SetProp(doc, "bootNodes", bootNodes))

updateNaming_FromDefaults(doc, cc) ==
    IF ~Has(cc, "meta") THEN Fail(doc, TypeError)
    ELSE Done(SetProp(SetProp(SetProp(SetProp(doc, "bootNodes", <<>>),
                                      "name", cc.meta.name),
                              "id", cc.meta.id),
                      "chainType", cc.meta.chainType))

updateNaming(doc, cc) ==
    IF ~Has(cc, "meta") THEN Fail(doc, TypeError)
    ELSE Done(SetProp(SetProp(SetProp(doc, "name", cc.meta.name),
                              "id", cc.meta.id),
                      "chainType", cc.meta.chainType))

\* The builders that assign into config.genesis.runtime.<pallet> compute the
\* assigned value first; the assignment throws a TypeError when the skeleton
\* has no such pallet object.
updateBalances(doc, cc) ==
    LET balances == Collect([i \in 1..Len(cc.accounts) |->
            LET account == cc.accounts[i][2]
                data == loadKeyOf(account)
            IN  IF ~data.ok THEN data
                ELSE Return(<<data.value.address, account.balance>>)])
    IN  IF ~balances.ok THEN Fail(doc, balances.err)
        ELSE IF ~HasPallet(doc, "palletBalances") THEN Fail(doc, TypeError)
        ELSE Done(SetField(doc, "palletBalances", "balances", balances.value))

\* _.map(account.tokens, (amount, name) => [address, name, amount])
TokenTriples(address, account) ==
    IF ~Has(account, "tokens") THEN <<>>
    ELSE [k \in 1..Len(account.tokens) |->
             <<address, account.tokens[k][1], account.tokens[k][2]>>]

updateTokens(doc, cc) ==
    LET perAccount == Collect([i \in 1..Len(cc.accounts) |->
            LET account == cc.accounts[i][2]
                data == loadKeyOf(account)
            IN  IF ~data.ok THEN data
                ELSE Return(TokenTriples(data.value.address, account))])
    IN  IF ~perAccount.ok THEN Fail(doc, perAccount.err)
        ELSE IF ~HasPallet(doc, "ormlTokens") THEN Fail(doc, TypeError)
        ELSE Done(SetField(doc, "ormlTokens", "endowedAccounts",
                           Flatten(perAccount.value)))

\* _.isEmpty of an address string
IsEmptyKey(key) == key = <<>>

updateSudo_HexKey(doc, cc) ==
    LET sudoAccount == IF Has(cc, "sudo_account") THEN cc.sudo_account ELSE ""
        rootAccount == getAccountOrFail(cc, sudoAccount)
    IN  IF ~rootAccount.ok THEN Fail(doc, rootAccount.err)
        ELSE LET rootKey == rootAccount.value.accountData.pubKeySr25519
             IN  IF IsEmptyKey(rootKey)
                 THEN Fail(doc, <<InvalidSudoMsg, sudoAccount>>)
                 ELSE Done([doc EXCEPT !.genesis.runtime =
                               SetProp(@, "palletSudo", [key |-> rootKey])])

updateSudo(doc, cc) ==
    LET sudoAccount == IF Has(cc, "sudo_account") THEN cc.sudo_account ELSE ""
        rootAccount == getAccountOrFail(cc, sudoAccount)
    IN  IF ~rootAccount.ok THEN Fail(doc, rootAccount.err)
        ELSE LET rootKey == rootAccount.value.accountData.address
             IN  IF IsEmptyKey(rootKey)
                 THEN Fail(doc, <<InvalidSudoMsg, sudoAccount>>)
                 ELSE Done([doc EXCEPT !.genesis.runtime =
                               SetProp(@, "palletSudo", [key |-> rootKey])])

\* the callback of updateSession for one node
SessionKeysOf(cc, key, node) ==
    LET account == getAccountOrFail(cc, node.account)
    IN  IF ~account.ok THEN account
        ELSE IF ~Has(account.value, "grandpa") THEN Throw(TypeError)
        ELSE LET grandpa == loadKeyOf(account.value.grandpa)
                 babe == IF Has(account.value, "babe")
                         THEN loadKeyOf(account.value.babe)
                         ELSE Throw(InvalidSeed)
             IN  IF ~grandpa.ok THEN grandpa
                 ELSE IF ~babe.ok THEN babe
                 ELSE LET grandpaId == grandpa.value.address
                          babeId == babe.value.address
                          address == account.value.accountData.address
                      IN  IF IsEmptyKey(grandpaId) \/ IsEmptyKey(babeId)
                          THEN Throw(<<InvalidSessionMsg, key, node.account>>)
                          ELSE Return(<<address, address,
                                        [grandpa |-> grandpaId, babe |-> babeId]>>)

updateSession(doc, cc) ==
    LET keys == Collect([i \in 1..Len(cc.nodes) |->
                            SessionKeysOf(cc, cc.nodes[i][1], cc.nodes[i][2])])
    IN  IF ~keys.ok THEN Fail(doc, keys.err)
        ELSE IF ~HasPallet(doc, "palletSession") THEN Fail(doc, TypeError)
        ELSE Done(SetField(doc, "palletSession", "keys", keys.value))

IsValidator(entry) == entry.role = "Validator"

StakerOf_Swapped(cc, accountData) ==
    LET stashAccount == getAccountOrFail(cc, accountData.stash)
        controllerAccount == getAccountOrFail(cc, accountData.controller)
    IN  IF ~stashAccount.ok THEN stashAccount
        ELSE IF ~controllerAccount.ok THEN controllerAccount
        ELSE Return(<<controllerAccount.value.accountData.address,
                      stashAccount.value.accountData.address,
                      FixedStake, accountData.role>>)

StakerOf_StashOnly(cc, accountData) ==
    LET stashAccount == getAccountOrFail(cc, accountData.stash)
    IN  IF ~stashAccount.ok THEN stashAccount
        ELSE Return(<<stashAccount.value.accountData.address,
                      <<"ss58", <<"sr25519", accountData.controller>>>>,
                      FixedStake, accountData.role>>)

\* the callback building one staker tuple
StakerOf(cc, accountData) ==
    LET stashAccount == getAccountOrFail(cc, accountData.stash)
        controllerAccount == getAccountOrFail(cc, accountData.controller)
    IN  IF ~stashAccount.ok THEN stashAccount
        ELSE IF ~controllerAccount.ok THEN controllerAccount
        ELSE Return(<<stashAccount.value.accountData.address,
                      controllerAccount.value.accountData.address,
                      FixedStake, accountData.role>>)

updateStaking_NoFloor(doc, cc) ==
    LET validators == SelectSeq(cc.staking, IsValidator)
        stakingAccounts == Collect([i \in 1..Len(validators) |->
            LET account == getAccountOrFail(cc, validators[i].stash)
            IN  IF ~account.ok THEN account
                ELSE Return(account.value.accountData.address)])
        stakers == Collect([i \in 1..Len(cc.staking) |->
                               StakerOf(cc, cc.staking[i])])
    IN  IF ~stakingAccounts.ok THEN Fail(doc, stakingAccounts.err)
        ELSE IF ~HasPallet(doc, "palletStaking") THEN Fail(doc, TypeError)
        ELSE LET size == Len(stakingAccounts.value)
                 d1 == SetField(doc, "palletStaking", "invulnerables",
                                stakingAccounts.value)
                 d2 == SetField(d1, "palletStaking", "validatorCount",
                                size * 2)
                 d3 == SetField(d2, "palletStaking", "minimumValidatorCount",
                                size)
             IN  IF ~stakers.ok THEN Fail(d3, stakers.err)
                 ELSE Done(SetField(d3, "palletStaking", "stakers",
                                    stakers.value))

updateStaking(doc, cc) ==
    LET validators == SelectSeq(cc.staking, IsValidator)
        stakingAccounts == Collect([i \in 1..Len(validators) |->
            LET account == getAccountOrFail(cc, validators[i].stash)
            IN  IF ~account.ok THEN account
                ELSE Return(account.value.accountData.address)])
        stakers == Collect([i \in 1..Len(cc.staking) |->
                               StakerOf(cc, cc.staking[i])])
    IN  IF ~stakingAccounts.ok THEN Fail(doc, stakingAccounts.err)
        ELSE IF ~HasPallet(doc, "palletStaking") THEN Fail(doc, TypeError)
        ELSE LET size == Len(stakingAccounts.value)
                 d1 == SetField(doc, "palletStaking", "invulnerables",
                                stakingAccounts.value)
                 d2 == SetField(d1, "palletStaking", "validatorCount",
                                IF size * 2 > 2 THEN size * 2 ELSE 2)
                 d3 == SetField(d2, "palletStaking", "minimumValidatorCount",
                                size)
             IN  IF ~stakers.ok THEN Fail(d3, stakers.err)
                 ELSE Done(SetField(d3, "palletStaking", "stakers",
                                    stakers.value))

\* ------------------------------------------------------------------- main()
chainSpecModifiers ==
    <<"bootnodes", "naming", "balance", "tokens", "session", "sudo", "staking">>

\* chainSpecModifiers[name](config, chainConfig)
Apply(name, doc, cc) ==
    CASE name = "bootnodes" -> updateBootNodes(doc, cc)
      [] name = "naming" -> updateNaming(doc, cc)
      [] name = "balance" -> updateBalances(doc, cc)
      [] name = "tokens" -> updateTokens(doc, cc)
      [] name = "session" -> updateSession(doc, cc)
      [] name = "sudo" -> updateSudo(doc, cc)
      [] name = "staking" -> updateStaking(doc, cc)

\* One turn of the _.forEach in main (lines 90-93): the modifier whose turn it
\* is gets announced and started
Turn(name) ==
    /\ pc = "forEach"
    /\ Len(started) < Len(chainSpecModifiers)
    /\ chainSpecModifiers[Len(started) + 1] = name
    /\ started' = Append(started, name)
    /\ UNCHANGED <<input, chainConfig, out, ret>>

\* config = fn(config, chainConfig): the result is kept; a throw leaves the
\* loop for the catch block (lines 99-105), which reports it, and main ends
\* without writing
Outcome_SkipAndContinue(res) ==
    /\ config' = res.config
    /\ err' = res.err
    /\ pc' = "forEach"

Outcome(res) ==
    /\ config' = res.config
    /\ err' = res.err
    /\ pc' = IF res.ok THEN "forEach" ELSE "failed"

UpdateBootNodes ==
    /\ Turn("bootnodes")
    /\ Outcome(updateBootNodes(config, chainConfig))

UpdateNaming ==
    /\ Turn("naming")
    /\ Outcome(updateNaming(config, chainConfig))

UpdateBalances ==
    /\ Turn("balance")
    /\ Outcome(updateBalances(config, chainConfig))

UpdateTokens ==
    /\ Turn("tokens")
    /\ Outcome(updateTokens(config, chainConfig))

UpdateSession ==
    /\ Turn("session")
    /\ Outcome(updateSession(config, chainConfig))

UpdateSudo ==
    /\ Turn("sudo")
    /\ Outcome(updateSudo(config, chainConfig))

UpdateStaking ==
    /\ Turn("staking")
    /\ Outcome(updateStaking(config, chainConfig))

\* fse.writeJson(argv.o, config) once the loop has ended normally
WriteJson ==
    /\ pc = "forEach"
    /\ Len(started) = Len(chainSpecModifiers)
    /\ out' = <<config>>
    /\ pc' = "done"
    /\ UNCHANGED <<input, chainConfig, config, err, started, ret>>

\* ------------------------------------------------------------------ inputs
AccountNames == {"alice", "bob", "carol"}
TokenNames == {"DOT", "KSM", "BTC"}
Roles == {"Validator", "Nominator"}
Shapes == {"full", "noSeed", "noGrandpa", "noBabe", "grandpaNoSeed",
           "babeNoSeed", "empty"}

InjSeqs(S, n) ==
    {s \in UNION {[1..k -> S] : k \in 0..n} :
        \A i, j \in 1..Len(s) : i # j => s[i] # s[j]}

EmptyObject == [p \in {} |-> ""]

Opt(present, obj) == IF present THEN obj ELSE EmptyObject

Balance(name) == CASE name = "alice" -> 1000 [] name = "bob" -> 500 [] OTHER -> 0

Amount(token) == CASE token = "DOT" -> 100 [] token = "KSM" -> 20 [] OTHER -> 3

\* an account entry of the yaml file; a sub-account in the old format has an
\* address and no seed
Account(name, shape, tokens) ==
    LET seedPart == Opt(shape \notin {"noSeed", "empty"},
                        [seed |-> "seed " \o name])
        grandpaPart == Opt(shape \notin {"noGrandpa", "empty"},
                           [grandpa |-> IF shape = "grandpaNoSeed"
                                        THEN [address |-> "5G" \o name]
                                        ELSE [seed |-> "grandpa " \o name]])
        babePart == Opt(shape \notin {"noBabe", "empty"},
                        [babe |-> IF shape = "babeNoSeed"
                                  THEN [address |-> "5B" \o name]
                                  ELSE [seed |-> "babe " \o name]])
        balancePart == Opt(shape # "empty", [balance |-> Balance(name)])
        tokensPart == Opt(tokens # <<>>, [tokens |-> tokens])
    IN  seedPart @@ grandpaPart @@ babePart @@ balancePart @@ tokensPart

\* accounts: entries under the distinct names ns, in that order
Accounts(ns, shapeOf, tokensOf) ==
    [i \in 1..Len(ns) |-> <<ns[i], Account(ns[i], shapeOf[i], tokensOf[i])>>]

NameSeqs == InjSeqs(AccountNames, MaxAccounts)

\* the same names in one order only
NamePrefixes ==
    {SubSeq(<<"alice", "bob", "carol">>, 1, k) : k \in 0..MaxAccounts} \cap NameSeqs

\* tokens: up to MaxTokens entries under distinct token names, in any order
TokenSeqs ==
    {[k \in 1..Len(ts) |-> <<ts[k], Amount(ts[k])>>] :
        ts \in InjSeqs(TokenNames, MaxTokens)}

NodeKeys == <<"node1", "node2", "node3">>

\* nodes: one entry per reference, each naming any account
Nodes(refs) ==
    [i \in 1..Len(refs) |->
        <<NodeKeys[i], [host |-> NodeKeys[i] \o ".clover.finance",
                        id |-> "12D3Koo" \o NodeKeys[i],
                        account |-> refs[i]]>>]

NodeRefs == UNION {[1..k -> AccountNames] : k \in 0..MaxNodes}

StakingSeqs ==
    UNION {[1..k -> [stash : AccountNames, controller : AccountNames,
                     role : Roles]] : k \in 0..MaxStaking}

Meta == [name |-> "Clover", id |-> "clover_local", chainType |-> "Local"]

ChainConfig(accounts, nodes, staking, sudo, hasMeta) ==
    [accounts |-> accounts, nodes |-> nodes, staking |-> staking]
    @@ Opt(sudo # "", [sudo_account |-> sudo])
    @@ Opt(hasMeta, [meta |-> Meta])

\* the genesis document read from argv.i
Skeleton ==
    [name |-> "Development", id |-> "dev", chainType |-> "Development",
     bootNodes |-> <<>>, protocolId |-> "clv",
     genesis |-> [runtime |->
        [frameSystem |-> [code |-> "0x00"],
         palletBalances |-> [balances |-> <<>>],
         ormlTokens |-> [endowedAccounts |-> <<>>],
         palletSession |-> [keys |-> <<>>],
         palletSudo |-> [key |-> <<"ss58", <<"sr25519", "//Alice">>>>,
                         note |-> "dev"],
         palletStaking |-> [invulnerables |-> <<>>, validatorCount |-> 0,
                            minimumValidatorCount |-> 0, stakers |-> <<>>,
                            forceEra |-> "NotForcing"]]]]

Pallets == {"palletBalances", "ormlTokens", "palletSession", "palletSudo",
            "palletStaking"}

Without(doc, pallet) ==
    [doc EXCEPT !.genesis.runtime =
        [p \in DOMAIN @ \ {pallet} |-> @[p]]]

AllFull(ns) == [i \in 1..Len(ns) |-> "full"]
NoTokens(ns) == [i \in 1..Len(ns) |-> <<>>]
FirstOf(ns) == IF ns = <<>> THEN "" ELSE ns[1]

WellFormed(hasMeta) ==
    ChainConfig(Accounts(<<"alice", "bob">>, <<"full", "full">>,
                         <<<<<<"DOT", Amount("DOT")>>>>, <<>>>>),
                Nodes(<<"alice">>),
                <<[stash |-> "alice", controller |-> "bob", role |-> "Validator"]>>,
                "alice", hasMeta)

\* main() up to the loop (lines 84-89): both files are loaded
Loaded(doc, cc) ==
    /\ input = doc
    /\ chainConfig = cc
    /\ config = doc
    /\ pc = "forEach"
    /\ err = NoError
    /\ out = <<>>
    /\ started = <<>>
    /\ ret = <<>>

\* Each family of inputs varies one part of the yaml file around well-formed
\* values of the others: the accounts' shapes with the nodes, the sudo
\* reference, the staking list, the token tables, the skeleton's pallets.
InitShapes ==
    \E ns \in NameSeqs : \E shapeOf \in [1..Len(ns) -> Shapes] :
    \E refs \in NodeRefs :
        Loaded(Skeleton, ChainConfig(Accounts(ns, shapeOf, NoTokens(ns)),
                                     Nodes(refs), <<>>, FirstOf(ns), TRUE))

InitSudo ==
    \E ns \in NameSeqs : \E shapeOf \in [1..Len(ns) -> {"full", "noGrandpa"}] :
    \E sudo \in AccountNames \cup {""} :
        Loaded(Skeleton, ChainConfig(Accounts(ns, shapeOf, NoTokens(ns)),
                                     <<>>, <<>>, sudo, TRUE))

InitStaking ==
    \E ns \in NamePrefixes : \E st \in StakingSeqs :
        Loaded(Skeleton, ChainConfig(Accounts(ns, AllFull(ns), NoTokens(ns)),
                                     <<>>, st, FirstOf(ns), TRUE))

InitTokens ==
    \E ns \in NamePrefixes : \E tokensOf \in [1..Len(ns) -> TokenSeqs] :
        Loaded(Skeleton, ChainConfig(Accounts(ns, AllFull(ns), tokensOf),
                                     <<>>, <<>>, FirstOf(ns), TRUE))

InitSkeleton ==
    \/ \E p \in Pallets : Loaded(Without(Skeleton, p), WellFormed(TRUE))
    \/ \E hasMeta \in BOOLEAN : Loaded(Skeleton, WellFormed(hasMeta))

Init == InitShapes \/ InitSudo \/ InitStaking \/ InitTokens \/ InitSkeleton

Next ==
    \/ UpdateBootNodes
    \/ UpdateNaming
    \/ UpdateBalances
    \/ UpdateTokens
    \/ UpdateSession
    \/ UpdateSudo
    \/ UpdateStaking
    \/ WriteJson

Spec == Init /\ [][Next]_vars

\* ------------------------------------------- the resolver, called directly
CallGetAccountOrFail ==
    /\ pc = "call"
    /\ \E accountName \in AccountNames \cup {""} :
          ret' = <<accountName, getAccountOrFail(chainConfig, accountName)>>
    /\ pc' = "returned"
    /\ UNCHANGED <<input, chainConfig, config, err, out, started>>

InitResolve ==
    /\ \E ns \in NameSeqs : \E shapeOf \in [1..Len(ns) -> Shapes] :
          chainConfig = ChainConfig(Accounts(ns, shapeOf, NoTokens(ns)),
                                    <<>>, <<>>, FirstOf(ns), TRUE)
    /\ input = Skeleton
    /\ config = Skeleton
    /\ pc = "call"
    /\ err = NoError
    /\ out = <<>>
    /\ started = <<>>
    /\ ret = <<>>

SpecResolve == InitResolve /\ [][CallGetAccountOrFail]_vars

\* ------------------------------------- the modifiers, run in any order
\* The forEach of main with its order lifted: any modifier not yet run may
\* take the next turn.  Here started lists the modifiers that have run in
\* their declaration order, whatever order they ran in.
Ran(names) ==
    LET Among(name) == name \in names IN SelectSeq(chainSpecModifiers, Among)

AnyOrderTurn ==
    /\ pc = "anyOrder"
    /\ \E name \in Range(chainSpecModifiers) \ Range(started) :
          /\ started' = Ran(Range(started) \cup {name})
          /\ LET res == Apply(name, config, chainConfig)
             IN  /\ config' = res.config
                 /\ err' = res.err
                 /\ pc' = IF res.ok THEN "anyOrder" ELSE "failed"
    /\ UNCHANGED <<input, chainConfig, out, ret>>

InitAnyOrder ==
    /\ \/ \E p \in Pallets : input = Without(Skeleton, p)
                             /\ chainConfig = WellFormed(TRUE)
       \/ /\ input = Skeleton
          /\ \E ns \in NamePrefixes : \E refs \in NodeRefs :
             \E sudo \in AccountNames \cup {""} :
                chainConfig =
                    ChainConfig(Accounts(ns, AllFull(ns),
                                         [i \in 1..Len(ns) |->
                                             <<<<"DOT", Amount("DOT")>>>>]),
                                Nodes(refs),
                                <<[stash |-> "alice", controller |-> "bob",
                                   role |-> "Validator"]>>,
                                sudo, TRUE)
    /\ config = input
    /\ pc = "anyOrder"
    /\ err = NoError
    /\ out = <<>>
    /\ started = <<>>
    /\ ret = <<>>

SpecAnyOrder == InitAnyOrder /\ [][AnyOrderTurn]_vars

\* ------------------------------------------------- vocabulary of the claims
\* The key material the specification names, from a seed phrase
PrimaryAddress(seed) == <<"ss58", <<"sr25519", seed>>>>
EdPublicKeyHex(seed) == <<"hex", <<"ed25519", seed>>>>

Configured(name) ==
    \E i \in 1..Len(chainConfig.accounts) : chainConfig.accounts[i][1] = name

AccountNamed(name) ==
    chainConfig.accounts[CHOOSE i \in 1..Len(chainConfig.accounts) :
                            chainConfig.accounts[i][1] = name][2]

AddressOf(name) == PrimaryAddress(AccountNamed(name).seed)

\* The error taxonomy, read off the thrown value
ErrorKind(e) ==
    CASE e = NoError -> "none"
      [] e = TypeError -> "TypeError"
      [] e[1] = InvalidAccountMsg -> "UnknownAccountError"
      [] e[1] = InvalidSudoMsg -> "InvalidSudoAccountError"
      [] e[1] = InvalidSessionMsg -> "IncompleteSessionKeyError"
      [] OTHER -> "InvalidSeedError"

\* where the pipeline of Spec stands with respect to one modifier
Position(name) == CHOOSE i \in 1..Len(chainSpecModifiers) :
                     chainSpecModifiers[i] = name
FailedAt(name) == pc = "failed" /\ Len(started) = Position(name)
Completed(name) == Len(started) >= Position(name) /\ ~FailedAt(name)

\* C1: if a section builder fails the driver aborts at that builder: no later
\* builder is started and nothing is written; the document is written only
\* after all seven builders have completed successfully, in their order.
C1_FailFast ==
    LET n == Len(started)
        Succeeds(i) == Apply(chainSpecModifiers[i], input, chainConfig).ok
    IN  /\ started = SubSeq(chainSpecModifiers, 1, n)
        /\ \A i \in 1..(n - 1) : Succeeds(i)
        /\ (n > 0 /\ ~Succeeds(n)) =>
              (pc = "failed" /\ out = <<>> /\ err # NoError /\ ~ENABLED Next)
        /\ out # <<>> =>
              (n = 7 /\ (\A i \in 1..n : Succeeds(i)) /\ out = <<config>>)

C1_Witness ==
    /\ FailedAt("session")
    /\ out = <<>>
    /\ ~ENABLED Next

\* ------------------------------------------------------- the staking claims
ValidatorEntries == SelectSeq(chainConfig.staking, LAMBDA e : e.role = "Validator")

\* the references of the staking list in the order the builder resolves
\* them: the validators' stashes, then every entry's stash and controller
StakingRefs ==
    [i \in 1..Len(ValidatorEntries) |-> ValidatorEntries[i].stash]
    \o [i \in 1..(2 * Len(chainConfig.staking)) |->
           IF i % 2 = 1 THEN chainConfig.staking[(i + 1) \div 2].stash
           ELSE chainConfig.staking[i \div 2].controller]

DanglingRefs == {i \in 1..Len(StakingRefs) : ~Configured(StakingRefs[i])}

FirstDangling == StakingRefs[CHOOSE i \in DanglingRefs :
                                \A j \in DanglingRefs : i <= j]

\* C2 as the specification states it: a staking entry whose stash or
\* controller is absent from accounts aborts the pipeline with a
\* StakingReferenceError carrying the offending name, and no other kind.
C2_AsStated ==
    (Len(started) = 7 /\ DanglingRefs # {} /\ HasPallet(input, "palletStaking")) =>
        /\ FailedAt("staking")
        /\ out = <<>>
        /\ ErrorKind(err) = "StakingReferenceError"
        /\ \E i \in DanglingRefs : err[2] = StakingRefs[i]

\* C2 as amended: such an entry aborts the pipeline at the staking builder
\* with the resolver's own error, invalid account "<name>" (the
\* UnknownAccountError), carrying the first unresolvable reference in the
\* builder's resolution order; nothing is written.
C2_StakingDangling ==
    (Len(started) = 7 /\ DanglingRefs # {} /\ HasPallet(input, "palletStaking")) =>
        /\ FailedAt("staking")
        /\ out = <<>>
        /\ ErrorKind(err) = "UnknownAccountError"
        /\ err = <<InvalidAccountMsg, FirstDangling>>
        /\ ~ENABLED Next

C2_Witness ==
    /\ FailedAt("staking")
    /\ Len(chainConfig.staking) = 2
    /\ Configured(chainConfig.staking[1].stash)
    /\ Configured(chainConfig.staking[1].controller)
    /\ Configured(chainConfig.staking[2].stash)
    /\ ~Configured(chainConfig.staking[2].controller)
    /\ err = <<InvalidAccountMsg, chainConfig.staking[2].controller>>

\* C3: when every reference resolves and the list holds v entries with role
\* Validator, the staking builder leaves validatorCount = max(2, 2v) and
\* minimumValidatorCount = v.
NumValidators ==
    Cardinality({i \in 1..Len(chainConfig.staking) :
                    chainConfig.staking[i].role = "Validator"})

C3_ValidatorCount ==
    Completed("staking") =>
        LET staking == Runtime(config).palletStaking
            v == NumValidators
        IN  /\ DanglingRefs = {}
            /\ staking.validatorCount = IF 2 * v >= 2 THEN 2 * v ELSE 2
            /\ staking.minimumValidatorCount = v

C3_Witness ==
    /\ Completed("staking")
    /\ NumValidators = 2
    /\ Runtime(config).palletStaking.validatorCount = 4
    /\ Runtime(config).palletStaking.minimumValidatorCount = 2

\* C8: when every reference resolves, stakers holds one 4-tuple per staking
\* entry in list order, (stash address, controller address, 100000000000000,
\* role), and invulnerables the stash addresses of the Validator entries in
\* list order.
C8_Stakers ==
    Completed("staking") =>
        LET staking == Runtime(config).palletStaking
        IN  /\ staking.stakers =
                  [i \in 1..Len(chainConfig.staking) |->
                      <<AddressOf(chainConfig.staking[i].stash),
                        AddressOf(chainConfig.staking[i].controller),
                        "100000000000000",
                        chainConfig.staking[i].role>>]
            /\ staking.invulnerables =
                  [i \in 1..Len(ValidatorEntries) |->
                      AddressOf(ValidatorEntries[i].stash)]

C8_Witness ==
    /\ pc = "done"
    /\ Len(chainConfig.staking) = 2
    /\ chainConfig.staking[1].role = "Nominator"
    /\ chainConfig.staking[2].role = "Validator"
    /\ chainConfig.staking[2].stash # chainConfig.staking[2].controller
    /\ chainConfig.staking[1].stash # chainConfig.staking[2].stash
    /\ Len(Runtime(config).palletStaking.stakers) = 2
    /\ Len(Runtime(config).palletStaking.invulnerables) = 1

\* ------------------------------------------------------- the session claims
NodeAt(i) == chainConfig.nodes[i][2]
NodeKeyAt(i) == chainConfig.nodes[i][1]

\* the account lacks a usable grandpa or babe seed
IncompleteKeys(account) ==
    \/ ~Has(account, "grandpa")
    \/ ~Has(account, "babe")
    \/ ~Has(account.grandpa, "seed")
    \/ ~Has(account.babe, "seed")

\* C4: for nodes whose accounts resolve and have grandpa and babe seeds, the
\* session builder emits per node, in node order, (primaryAddress,
\* primaryAddress, {grandpa: G, babe: B}) with G and B the ed25519 hex
\* public keys derived from the account's grandpa and babe seeds.
C4_SessionKeys ==
    Completed("session") =>
        Runtime(config).palletSession.keys =
            [i \in 1..Len(chainConfig.nodes) |->
                LET account == AccountNamed(NodeAt(i).account)
                IN  <<PrimaryAddress(account.seed), PrimaryAddress(account.seed),
                      [grandpa |-> EdPublicKeyHex(account.grandpa.seed),
                       babe |-> EdPublicKeyHex(account.babe.seed)]>>]

\* C5: a node that references a configured account whose grandpa or babe
\* sub-account (or its seed) is missing makes the session builder fail with
\* IncompleteSessionKeyError carrying the node name and the account name,
\* and with no other error kind.
C5_IncompleteSessionKey ==
    (/\ Len(started) >= Position("session")
     /\ chainConfig.nodes # <<>>
     /\ Configured(NodeAt(1).account)
     /\ IncompleteKeys(AccountNamed(NodeAt(1).account))) =>
        /\ FailedAt("session")
        /\ ErrorKind(err) = "IncompleteSessionKeyError"
        /\ err = <<InvalidSessionMsg, NodeKeyAt(1), NodeAt(1).account>>

\* ---------------------------------------------------------- the sudo claim
SudoName ==
    IF Has(chainConfig, "sudo_account") THEN chainConfig.sudo_account ELSE ""

SudoUnwritten ==
    /\ HasPallet(config, "palletSudo") = HasPallet(input, "palletSudo")
    /\ HasPallet(config, "palletSudo") =>
          Runtime(config).palletSudo = Runtime(input).palletSudo

\* C6 as the specification states it: the sudo builder either fails with
\* InvalidSudoAccountError carrying the sudo reference (absent reference, no
\* such account, empty address) leaving palletSudo.key unwritten, or sets
\* palletSudo.key to the primary address of the account named.
C6_AsStated ==
    Len(started) >= Position("sudo") =>
        IF ~Configured(SudoName)
        THEN /\ FailedAt("sudo")
             /\ ErrorKind(err) = "InvalidSudoAccountError"
             /\ err[2] = SudoName
             /\ SudoUnwritten
        ELSE /\ Completed("sudo")
             /\ Runtime(config).palletSudo.key = AddressOf(SudoName)

\* C6 as amended: in a run that reaches the sudo builder it has exactly two
\* outcomes.  If sudo_account is absent or names no configured account it
\* fails with the resolver's error, invalid account "<name>" (the
\* UnknownAccountError; the name is empty when sudo_account is absent), and
\* leaves palletSudo unwritten; otherwise it replaces palletSudo by {key:
\* primary address of the account named}.  The InvalidSudoAccountError is
\* never raised.
C6_SudoOutcomes ==
    /\ ErrorKind(err) # "InvalidSudoAccountError"
    /\ Len(started) >= Position("sudo") =>
          IF ~Configured(SudoName)
          THEN /\ FailedAt("sudo")
               /\ ErrorKind(err) = "UnknownAccountError"
               /\ err = <<InvalidAccountMsg, SudoName>>
               /\ SudoUnwritten
               /\ out = <<>>
          ELSE /\ Completed("sudo")
               /\ Runtime(config).palletSudo = [key |-> AddressOf(SudoName)]

C6_Witness ==
    /\ FailedAt("sudo")
    /\ ~Has(chainConfig, "sudo_account")
    /\ chainConfig.accounts # <<>>
    /\ err = <<InvalidAccountMsg, "">>

\* -------------------------------------------------------- the tokens claim
TokensOf(account) == IF Has(account, "tokens") THEN account.tokens ELSE <<>>

\* the number of token entries of the accounts before the i-th
RECURSIVE TokensBefore(_)
TokensBefore(i) ==
    IF i <= 1 THEN 0
    ELSE TokensBefore(i - 1) + Len(TokensOf(chainConfig.accounts[i - 1][2]))

\* C7: after the tokens builder endowedAccounts is the flattened sequence of
\* (primaryAddress, tokenName, amount): as long as the sum of the accounts'
\* token entries, in account order and within an account in token order,
\* each triple led by the primary address of the account owning the entry.
C7_TokenFlattening ==
    Completed("tokens") =>
        LET endowed == Runtime(config).ormlTokens.endowedAccounts
            n == Len(chainConfig.accounts)
        IN  /\ Len(endowed) = TokensBefore(n + 1)
            /\ \A i \in 1..n :
                  LET account == chainConfig.accounts[i][2]
                  IN  \A k \in 1..Len(TokensOf(account)) :
                         endowed[TokensBefore(i) + k] =
                             <<PrimaryAddress(account.seed),
                               account.tokens[k][1], account.tokens[k][2]>>

C7_Witness ==
    /\ pc = "done"
    /\ Len(chainConfig.accounts) = 2
    /\ Len(TokensOf(chainConfig.accounts[1][2])) = 2
    /\ Len(TokensOf(chainConfig.accounts[2][2])) = 1
    /\ Len(Runtime(config).ormlTokens.endowedAccounts) = 3

\* ------------------------------------------------------ the resolver claim
\* v is the account stored under name together with its derived key bundle
Populated(name, v) ==
    LET account == AccountNamed(name)
    IN  /\ \A prop \in DOMAIN account : Has(v, prop) /\ v[prop] = account[prop]
        /\ Has(v, "accountData")
        /\ v.accountData.address = PrimaryAddress(account.seed)
        /\ v.accountData.pubKeyEd25519 = EdPublicKeyHex(account.seed)

RECURSIVE RunFrom(_, _, _)
RunFrom(doc, cc, i) ==
    IF i > Len(chainSpecModifiers) THEN doc
    ELSE RunFrom(Apply(chainSpecModifiers[i], doc, cc).config, cc, i + 1)

\* the paths of a document: its top-level fields and the fields of the
\* pallets under genesis.runtime
Paths(doc) ==
    {<<prop>> : prop \in DOMAIN doc \ {"genesis"}}
    \cup UNION {{<<"genesis", "runtime", pallet, field>> :
                    field \in DOMAIN Runtime(doc)[pallet]} :
                pallet \in DOMAIN Runtime(doc)}

ValueAt(doc, path) ==
    IF Len(path) = 1 THEN doc[path[1]] ELSE Runtime(doc)[path[3]][path[4]]

\* the section of the document each builder owns; the sudo builder replaces
\* the palletSudo object as a whole
InPallet(path, pallet, fields) ==
    /\ Len(path) = 4
    /\ path[3] = pallet
    /\ path[4] \in fields

Owns(name, path) ==
    CASE name = "bootnodes" -> path = <<"bootNodes">>
      [] name = "naming" -> path \in {<<"name">>, <<"id">>, <<"chainType">>}
      [] name = "balance" -> InPallet(path, "palletBalances", {"balances"})
      [] name = "tokens" -> InPallet(path, "ormlTokens", {"endowedAccounts"})
      [] name = "session" -> InPallet(path, "palletSession", {"keys"})
      [] name = "sudo" -> Len(path) = 4 /\ path[3] = "palletSudo"
      [] name = "staking" ->
            InPallet(path, "palletStaking",
                     {"invulnerables", "validatorCount",
                      "minimumValidatorCount", "stakers"})

SectionsDisjoint ==
    \A path \in Paths(config) : \A a, b \in Range(chainSpecModifiers) :
        a # b => ~(Owns(a, path) /\ Owns(b, path))

\* a turn of builder name changes no path outside its section
Frame(name) ==
    \A path \in Paths(config) \cup Paths(config') :
        ~Owns(name, path) =>
            /\ path \in Paths(config) \cap Paths(config')
            /\ ValueAt(config', path) = ValueAt(config, path)

\* C10: the builders write pairwise disjoint sections and none depends on
\* what another wrote: when all succeed, running them in any order on the
\* same skeleton gives the document the fixed order gives, and every turn
\* leaves the paths outside the running builder's section unchanged.
C10_OrderIndependent ==
    [][/\ SectionsDisjoint
       /\ \A name \in Range(started') \ Range(started) : Frame(name)
       /\ (pc' = "anyOrder" /\ Len(started') = Len(chainSpecModifiers)) =>
             config' = RunFrom(input, chainConfig, 1)]_vars

C10_Witness ==
    /\ pc = "anyOrder"
    /\ started = <<"tokens", "sudo", "staking">>
    /\ Runtime(config).palletSudo = [key |-> AddressOf("bob")]
    /\ Len(Runtime(config).palletStaking.stakers) = 1
    /\ Runtime(config).palletBalances.balances = <<>>
    /\ config.bootNodes = <<>>

=============================================================================





